---- MODULE Spec2Model ----
(***************************************************************************)
(* Community-report context assembly of graphrag:                          *)
(*   index/graph/extractors/community_reports/sort_context.py              *)
(* sort_context (one community) and sort_context_batch (one call per       *)
(* community group) as state machines over bounded inputs.                 *)
(*                                                                         *)
(* Representation.  A dict is a TLA+ record; a key that is absent from the *)
(* dict is absent from DOMAIN.  A rendered string is the sequence of its   *)
(* blocks, the empty string is << >>.  None is << >> for the report list   *)
(* and for max_tokens (an int n is <<n>>).  Identity values are strings.   *)
(***************************************************************************)
EXTENDS Integers, Sequences, FiniteSets, TLC

VARIABLES
    entry,                  \* which entry point was called
    local_context,          \* sort_context: list of per-node records
    local_contexts,         \* sort_context_batch: table of per-node rows
    sub_community_reports,  \* list / table of report rows
    max_tokens,             \* << >> (None) or <<n>>
    pc,                     \* position in sort_context
    edges,                  \* sort_context: filtered, sorted edge pool
    k,                      \* sort_context: edges consumed by the loop
    sorted_nodes,
    sorted_edges,
    sorted_claims,
    context_string,
    result,                 \* sort_context: returned string
    group,                  \* sort_context_batch: locals of generate_context, per group
    context_results         \* sort_context_batch: emitted row per community

vars == <<entry, local_context, local_contexts, sub_community_reports, max_tokens,
          pc, edges, k, sorted_nodes, sorted_edges, sorted_claims, context_string,
          result, group, context_results>>

(***************************************************************************)
(* Bounds of the model                                                     *)
(***************************************************************************)
MaxDegree == 2      \* edge degrees range over 1..MaxDegree
MaxTokens == 8      \* budgets range over 0..MaxTokens, and None

(***************************************************************************)
(* Column names (defaults of the keyword parameters, from schemas)         *)
(***************************************************************************)
node_id_column == "id"
node_name_column == "name"
node_details_column == "node_details"
edge_id_column == "id"
edge_details_column == "edge_details"
edge_degree_column == "degree"
edge_source_column == "source"
edge_target_column == "target"
claim_id_column == "id"
claim_details_column == "claim_details"
claim_subject_column == "subject"
community_id_column == "community"

(***************************************************************************)
(* Values                                                                  *)
(***************************************************************************)
NaN == [nan |-> TRUE]           \* a not-a-number placeholder standing for a record
None == << >>
EmptyString == << >>

\* pd.isna(x) on an element of a detail list
isna(x) == x = NaN

\* isinstance(edge, dict)
isdict(x) == x # NaN

\* bool(v) of a string
Truthy(v) == v # ""

\* str(v).strip() of the identity strings of the model
Strip(v) == IF v = " " THEN "" ELSE v

\* bool(max_tokens): None and 0 are both false
BudgetSet(mt) == mt # None /\ mt[1] # 0

(***************************************************************************)
(* Sequence helpers                                                        *)
(***************************************************************************)
RECURSIVE Flatten(_)
Flatten(ss) == IF ss = << >> THEN << >> ELSE Head(ss) \o Flatten(Tail(ss))

RECURSIVE SumSeq(_)
SumSeq(s) == IF s = << >> THEN 0 ELSE Head(s) + SumSeq(Tail(s))

Range(s) == {s[i] : i \in DOMAIN s}

\* sorted / sort_values: a stable sort on keys, keys[i] being the key of s[i].
\* A key is a pair, compared lexicographically.  Element i goes after every
\* element of smaller key and after every earlier element of equal key.
KeyLess(a, b) == a[1] < b[1] \/ (a[1] = b[1] /\ a[2] < b[2])

SortRank(keys, i) ==
    1 + Cardinality({j \in DOMAIN keys :
            \/ KeyLess(keys[j], keys[i])
            \/ (~KeyLess(keys[i], keys[j]) /\ j < i)})

SortStable(s, keys) ==
    [r \in DOMAIN s |-> s[CHOOSE i \in DOMAIN s : SortRank(keys, i) = r]]

(***************************************************************************)
(* pandas: DataFrame construction, drop_duplicates, to_csv                 *)
(***************************************************************************)
Columns(rows) == UNION {DOMAIN rows[i] : i \in DOMAIN rows}

\* pd.DataFrame(list of dicts): every row carries every column, NaN where absent
DataFrame(rows) ==
    [i \in DOMAIN rows |->
        [c \in Columns(rows) |-> IF c \in DOMAIN rows[i] THEN rows[i][c] ELSE "nan"]]

\* DataFrame.drop_duplicates(): the first occurrence of every row is kept, in order
KeepFirst(df, i) == \A j \in 1..(i - 1) : df[j] # df[i]

RECURSIVE drop_duplicates_upto(_, _)
drop_duplicates_upto(df, n) ==
    IF n = 0 THEN << >>
    ELSE IF KeepFirst(df, n) THEN Append(drop_duplicates_upto(df, n - 1), df[n])
    ELSE drop_duplicates_upto(df, n - 1)

drop_duplicates_KeepAll(df) == df

drop_duplicates(df) == drop_duplicates_upto(df, Len(df))

\* f"{header}\n{df.to_csv(index=False, sep=',')}": header line, column line, one line per row
Block(header, df) == [header |-> header, columns |-> Columns(df), rows |-> df]

\* "\n\n".join(contexts)
Join(contexts) == contexts

\* num_tokens: external tokenizer; here one token per line of text, so the
\* empty string has 0 tokens and every block has at least 2
BlockLines(b) == 2 + Len(b.rows)

num_tokens(text) ==
    IF text = EmptyString THEN 0
    ELSE SumSeq([i \in DOMAIN text |-> BlockLines(text[i])]) + (Len(text) - 1)

(***************************************************************************)
(* sort_context._get_context_string                                        *)
(***************************************************************************)
\* the comprehension filter on an identity column: key present, value truthy,
\* and not blank after str().strip()
HasIdentity(row, col) ==
    /\ col \in DOMAIN row
    /\ Truthy(row[col])
    /\ Strip(row[col]) # ""

FilterIdentity(rows, col) == SelectSeq(rows, LAMBDA r : HasIdentity(r, col))

\* one section of the single-community render: filter, frame, deduplicate, and
\* a block only if the frame is not empty
Section(header, rows, col) ==
    LET df == drop_duplicates(DataFrame(FilterIdentity(rows, col)))
    IN  IF df = << >> THEN << >> ELSE <<Block(header, df)>>

get_context_string(entities, edgs, claims, reports) ==
    Join(  (IF reports # << >>
              THEN Section("----Reports-----", reports, community_id_column)
              ELSE << >>)
        \o Section("-----Entities-----", entities, node_id_column)
        \o (IF claims # << >>
              THEN Section("-----Claims-----", claims, claim_id_column)
              ELSE << >>)
        \o Section("-----Relationships-----", edgs, edge_id_column))

(***************************************************************************)
(* sort_context: flattening and sorting                                    *)
(***************************************************************************)
\* record_edges of every record, NaN placeholders removed, concatenated
EdgePoolOf(lc) ==
    Flatten([i \in DOMAIN lc |->
        SelectSeq(lc[i][edge_details_column], LAMBDA e : ~isna(e))])

\* index of the last record named n (a later record overwrites an earlier one), 0 if none
LastIndex(lc, n) ==
    LET hits == {i \in DOMAIN lc : lc[i][node_name_column] = n}
    IN  IF hits = {} THEN 0 ELSE CHOOSE i \in hits : \A j \in hits : j <= i

\* node_details.get(name, {})
node_details(lc, n) ==
    IF LastIndex(lc, n) = 0 THEN << >>
    ELSE lc[LastIndex(lc, n)][node_details_column]

\* claim_details.get(name, [])
claim_details(lc, n) ==
    IF LastIndex(lc, n) = 0 THEN << >>
    ELSE SelectSeq(lc[LastIndex(lc, n)][claim_details_column], LAMBDA c : ~isna(c))

DegreeKey_Ascending(edge) == <<edge[edge_degree_column], 0>>

\* sorted(..., key=degree, reverse=True): larger degree first, ties keep their order
DegreeKey(edge) == <<0 - edge[edge_degree_column], 0>>

SortedEdgePool(lc) ==
    LET pool == SelectSeq(EdgePoolOf(lc), isdict)
    IN  SortStable(pool, [i \in DOMAIN pool |-> DegreeKey(pool[i])])

\* what one pass of the loop body appends for an edge
StepNodes(lc, edge) ==
    <<node_details(lc, edge[edge_source_column]),
      node_details(lc, edge[edge_target_column])>>

StepClaims_SourceTwice(lc, edge) ==
    LET source_claims == claim_details(lc, edge[edge_source_column])
    IN  source_claims \o source_claims

StepClaims(lc, edge) ==
    LET source_claims == claim_details(lc, edge[edge_source_column])
        target_claims == claim_details(lc, edge[edge_target_column])
    IN  (IF source_claims # << >> THEN source_claims ELSE << >>)
        \o (IF source_claims # << >> THEN target_claims ELSE << >>)

(***************************************************************************)
(* sort_context_batch: generate_context and its _get_context_string        *)
(***************************************************************************)
\* the rows of the group named c, in table order
GroupRows(lcs, c) == SelectSeq(lcs, LAMBDA r : r[community_id_column] = c)

\* the keys of groupby(community_id_column)
GroupKeys(lcs) == {lcs[i][community_id_column] : i \in DOMAIN lcs}

\* group[edge_details_column].explode().dropna().tolist() as a deduplicated frame
BatchEdgesFrame(rows) ==
    drop_duplicates(DataFrame(
        Flatten([i \in DOMAIN rows |->
            SelectSeq(rows[i][edge_details_column], LAMBDA e : ~isna(e))])))

\* group[column].dropna().tolist() as a deduplicated frame: one dict per row
CellsFrame(rows, column) ==
    drop_duplicates(DataFrame(
        Flatten([i \in DOMAIN rows |->
            IF isna(rows[i][column]) THEN << >> ELSE <<rows[i][column]>>])))

BatchClaimsFrame(rows) == CellsFrame(rows, claim_details_column)

BatchNodesFrame(rows) == CellsFrame(rows, node_details_column)

\* ascending order of the identity strings of the model, NaN last
IdRank(v) ==
    CASE v = "" -> 0
      [] v = " " -> 1
      [] v = "1" -> 2
      [] v = "2" -> 3
      [] OTHER -> 4

\* sort_values(by=[degree, id], ascending=[False, True])
DegreeIdKey(edge) == <<0 - edge[edge_degree_column], IdRank(edge[edge_id_column])>>

BatchSortedEdges(rows) ==
    LET frame == BatchEdgesFrame(rows)
    IN  IF frame = << >> THEN << >>
        ELSE SortStable(frame, [i \in DOMAIN frame |-> DegreeIdKey(frame[i])])

\* the report block the group is seeded with
BatchSeed(reports, c) ==
    LET mine == SelectSeq(reports, LAMBDA r : r[community_id_column] = c)
    IN  IF mine = << >> THEN << >>
        ELSE <<Block("----Reports-----", DataFrame(mine))>>

\* what one pass of the loop body appends for an edge
BatchStepNodes(rows, edge) ==
    LET nodes == BatchNodesFrame(rows)
        source_nodes == SelectSeq(nodes,
            LAMBDA n : n[node_name_column] = edge[edge_source_column])
        target_nodes == SelectSeq(nodes,
            LAMBDA n : n[node_name_column] = edge[edge_target_column])
    IN  (IF Len(source_nodes) > 0 THEN <<source_nodes[1]>> ELSE << >>)
        \o (IF Len(target_nodes) > 0 THEN <<target_nodes[1]>> ELSE << >>)

BatchStepClaims(rows, edge) ==
    LET claims == BatchClaimsFrame(rows)
    IN  IF Len(claims) > 0
        THEN SelectSeq(claims, LAMBDA cl :
                cl[claim_subject_column] \in
                    {edge[edge_source_column], edge[edge_target_column]})
        ELSE << >>

\* the blocks _get_context_string appends: no identity filter, a block per
\* non-empty list
BatchBlocks(entities, edgs, claims) ==
       (IF entities # << >>
          THEN <<Block("-----Entities-----", drop_duplicates(DataFrame(entities)))>>
          ELSE << >>)
    \o (IF claims # << >>
          THEN <<Block("-----Claims-----", drop_duplicates(DataFrame(claims)))>>
          ELSE << >>)
    \o (IF edgs # << >>
          THEN <<Block("-----Relationships-----", drop_duplicates(DataFrame(edgs)))>>
          ELSE << >>)

CopyAndAppend_NoCopy(existing_contexts, blocks) ==
    [contexts |-> existing_contexts \o blocks,
     existing_contexts |-> existing_contexts \o blocks]

\* contexts = existing_contexts.copy(), then the appends: the list that is joined
\* and the caller's list after the call
CopyAndAppend(existing_contexts, blocks) ==
    [contexts |-> existing_contexts \o blocks,
     existing_contexts |-> existing_contexts]

batch_get_context_string(entities, edgs, claims, existing_contexts) ==
    Join(CopyAndAppend(existing_contexts, BatchBlocks(entities, edgs, claims)).contexts)

\* the pd.Series generate_context returns
OutputRow(c, rows, cs, mt) ==
    [community |-> c,
     context_string |-> cs,
     context_size |-> num_tokens(cs),
     context_exceed_flag |-> IF BudgetSet(mt) THEN num_tokens(cs) > mt[1] ELSE FALSE,
     all_context |-> [i \in DOMAIN rows |-> rows[i].all_context]]

(***************************************************************************)
(* Inputs                                                                  *)
(***************************************************************************)
Communities == {"c1", "c2"}

Degrees == 1..MaxDegree

Budgets == {None} \cup {<<n>> : n \in 0..MaxTokens}

\* Edge "1" joins A to B with degree 1; edge "2" joins B to C and has any
\* degree; the edge from A to C has an empty identity and the largest degree.
\* No record is ever supplied for node C.
EdgeRow(id, s, t, d) == [id |-> id, source |-> s, target |-> t, degree |-> d]

EdgePool ==
    {EdgeRow("2", "B", "C", d) : d \in Degrees}
        \cup {EdgeRow("1", "A", "B", 1), EdgeRow("", "A", "C", MaxDegree)}

\* the edge lists of record A: at most two edges
ListsA == {<< >>} \cup {<<e>> : e \in EdgePool}
              \cup {<<e, f>> : e \in EdgePool, f \in EdgePool}

\* the edge lists of record B: at most one edge, or a NaN placeholder
ListsB == {<< >>, <<NaN>>} \cup {<<e>> : e \in EdgePool}

NodeOk(n) == [id |-> "7", name |-> n]

NodeBlank(n) == [id |-> " ", name |-> n]

ClaimOk(n) == [id |-> "9", subject |-> n]

ClaimNoId(n) == [subject |-> n]

Report(c) == [community |-> c, full_content |-> "report"]

ReportLists == {None, <<Report("c1"), Report("")>>}

\* sort_context: one record per node, A then B
Record(n, nd, es, cs) ==
    [name |-> n, node_details |-> nd, edge_details |-> es, claim_details |-> cs]

SingleInputs ==
    {<<Record("A", na, ea, ca), Record("B", nb, eb, cb)>> :
        na \in {NodeOk("A"), NodeBlank("A")},
        nb \in {NodeOk("B"), NodeBlank("B")},
        ea \in ListsA,
        eb \in ListsB,
        ca \in {<< >>, <<ClaimOk("A")>>, <<ClaimNoId("A"), NaN>>},
        cb \in {<< >>, <<ClaimOk("B")>>}}

\* sort_context_batch: one row per node, A then B, tagged with its community;
\* the claim cell is read as one dict per row (or NaN), the edge cell as a list.
\* Every row has its node details: generate_context selects on the name column
\* of the node frame, which a group without node details does not have.
BatchRow(c, n, nd, es, cl) ==
    [community |-> c, name |-> n, node_details |-> nd, edge_details |-> es,
     claim_details |-> cl, all_context |-> n]

BatchInputs ==
    {<<BatchRow("c1", "A", na, ea, ca), BatchRow(cb, "B", nb, eb, clb)>> :
        cb \in Communities,
        na \in {NodeOk("A")},
        nb \in {NodeOk("B"), NodeBlank("B")},
        ea \in ListsA,
        eb \in ListsB,
        ca \in {NaN, ClaimOk("A")},
        clb \in {NaN}}

(***************************************************************************)
(* State after the call is entered                                         *)
(***************************************************************************)
IdleGroup ==
    [pc |-> "idle", edges |-> << >>, k |-> 0,
     sorted_nodes |-> << >>, sorted_edges |-> << >>, sorted_claims |-> << >>,
     contexts |-> << >>, context_string |-> EmptyString]

NoRow == << >>

Init ==
    /\ entry \in {"sort_context", "sort_context_batch"}
    /\ IF entry = "sort_context"
         THEN local_context \in SingleInputs /\ local_contexts = << >>
         ELSE local_context = << >> /\ local_contexts \in BatchInputs
    /\ sub_community_reports \in ReportLists
    /\ max_tokens \in Budgets
    /\ pc = IF entry = "sort_context" THEN "start" ELSE "none"
    /\ edges = << >>
    /\ k = 0
    /\ sorted_nodes = << >>
    /\ sorted_edges = << >>
    /\ sorted_claims = << >>
    /\ context_string = EmptyString
    /\ result = EmptyString
    /\ group = [c \in Communities |-> IdleGroup]
    /\ context_results = [c \in Communities |-> NoRow]

inputs == <<entry, local_context, local_contexts, sub_community_reports, max_tokens>>

(***************************************************************************)
(* sort_context                                                            *)
(***************************************************************************)
\* lines 111-133: flatten, filter, sort, and the empty accumulators
Prepare ==
    /\ pc = "start"
    /\ edges' = SortedEdgePool(local_context)
    /\ k' = 0
    /\ sorted_nodes' = << >>
    /\ sorted_edges' = << >>
    /\ sorted_claims' = << >>
    /\ context_string' = EmptyString
    /\ pc' = "loop"
    /\ UNCHANGED <<inputs, result, group, context_results>>

\* the lists after the loop body has appended for the next edge
NextNodes == sorted_nodes \o StepNodes(local_context, edges[k + 1])
NextEdges == Append(sorted_edges, edges[k + 1])
NextClaims == sorted_claims \o StepClaims(local_context, edges[k + 1])
NewContextString ==
    get_context_string(NextNodes, NextEdges, NextClaims, sub_community_reports)

OverBudget_OffByOne(text, mt) == BudgetSet(mt) /\ num_tokens(text) > mt[1] + 1

\* lines 143-147 and 234: the budget test of both loops
OverBudget(text, mt) == BudgetSet(mt) /\ num_tokens(text) > mt[1]

Accept_RecordFirst(cs, new, mt) == IF BudgetSet(mt) THEN new ELSE cs

\* lines 143-149: context_string after a pass of the loop of sort_context
Accept(cs, new, mt) ==
    IF BudgetSet(mt) /\ ~OverBudget(new, mt) THEN new ELSE cs

ReturnValue_NoFallback(cs, nodes, edgs, claims, reports) == cs

\* lines 151-156: the returned string
ReturnValue(cs, nodes, edgs, claims, reports) ==
    IF cs = EmptyString THEN get_context_string(nodes, edgs, claims, reports) ELSE cs

\* lines 134-149, a pass that does not break
Grow ==
    /\ pc = "loop"
    /\ k < Len(edges)
    /\ ~OverBudget(NewContextString, max_tokens)
    /\ sorted_nodes' = NextNodes
    /\ sorted_edges' = NextEdges
    /\ sorted_claims' = NextClaims
    /\ context_string' = Accept(context_string, NewContextString, max_tokens)
    /\ k' = k + 1
    /\ UNCHANGED <<inputs, pc, edges, result, group, context_results>>

\* lines 134-148, the pass that breaks
Break ==
    /\ pc = "loop"
    /\ k < Len(edges)
    /\ OverBudget(NewContextString, max_tokens)
    /\ sorted_nodes' = NextNodes
    /\ sorted_edges' = NextEdges
    /\ sorted_claims' = NextClaims
    /\ context_string' = Accept(context_string, NewContextString, max_tokens)
    /\ k' = k + 1
    /\ pc' = "break"
    /\ UNCHANGED <<inputs, edges, result, group, context_results>>

\* lines 151-156
Return ==
    /\ \/ pc = "loop" /\ k = Len(edges)
       \/ pc = "break"
    /\ result' = ReturnValue(context_string, sorted_nodes, sorted_edges, sorted_claims,
                             sub_community_reports)
    /\ pc' = "done"
    /\ UNCHANGED <<inputs, edges, k, sorted_nodes, sorted_edges, sorted_claims,
                   context_string, group, context_results>>

(***************************************************************************)
(* sort_context_batch: one generate_context call per group                 *)
(***************************************************************************)
Rows(c) == GroupRows(local_contexts, c)

\* lines 172-205
BeginGroup(c) ==
    /\ entry = "sort_context_batch"
    /\ c \in GroupKeys(local_contexts)
    /\ group[c].pc = "idle"
    /\ group' = [group EXCEPT ![c] =
          [pc |-> "loop", edges |-> BatchSortedEdges(Rows(c)), k |-> 0,
           sorted_nodes |-> << >>, sorted_edges |-> << >>, sorted_claims |-> << >>,
           contexts |-> BatchSeed(sub_community_reports, c),
           context_string |-> EmptyString]]
    /\ UNCHANGED <<inputs, pc, edges, k, sorted_nodes, sorted_edges, sorted_claims,
                   context_string, result, context_results>>

BatchNextNodes(c) ==
    group[c].sorted_nodes \o BatchStepNodes(Rows(c), group[c].edges[group[c].k + 1])
BatchNextClaims(c) ==
    group[c].sorted_claims \o BatchStepClaims(Rows(c), group[c].edges[group[c].k + 1])
BatchNextEdges(c) ==
    Append(group[c].sorted_edges, group[c].edges[group[c].k + 1])
BatchNewContextString(c) ==
    batch_get_context_string(BatchNextNodes(c), BatchNextEdges(c), BatchNextClaims(c),
                             group[c].contexts)
BatchContextsAfter(c) ==
    CopyAndAppend(group[c].contexts,
        BatchBlocks(BatchNextNodes(c), BatchNextEdges(c), BatchNextClaims(c))
    ).existing_contexts

BatchAccept_RecordFirst(cs, new, mt) == new

\* lines 234-236: context_string after a pass of the loop of generate_context
BatchAccept(cs, new, mt) == IF OverBudget(new, mt) THEN cs ELSE new

\* lines 206-236, a pass that does not break
BatchGrow(c) ==
    /\ group[c].pc = "loop"
    /\ group[c].k < Len(group[c].edges)
    /\ ~OverBudget(BatchNewContextString(c), max_tokens)
    /\ group' = [group EXCEPT ![c] =
          [@ EXCEPT !.k = @ + 1,
                    !.sorted_nodes = BatchNextNodes(c),
                    !.sorted_edges = BatchNextEdges(c),
                    !.sorted_claims = BatchNextClaims(c),
                    !.contexts = BatchContextsAfter(c),
                    !.context_string =
                        BatchAccept(@, BatchNewContextString(c), max_tokens)]]
    /\ UNCHANGED <<inputs, pc, edges, k, sorted_nodes, sorted_edges, sorted_claims,
                   context_string, result, context_results>>

\* lines 206-235, the pass that breaks
BatchBreak(c) ==
    /\ group[c].pc = "loop"
    /\ group[c].k < Len(group[c].edges)
    /\ OverBudget(BatchNewContextString(c), max_tokens)
    /\ group' = [group EXCEPT ![c] =
          [@ EXCEPT !.k = @ + 1,
                    !.sorted_nodes = BatchNextNodes(c),
                    !.sorted_edges = BatchNextEdges(c),
                    !.sorted_claims = BatchNextClaims(c),
                    !.contexts = BatchContextsAfter(c),
                    !.context_string =
                        BatchAccept(@, BatchNewContextString(c), max_tokens),
                    !.pc = "break"]]
    /\ UNCHANGED <<inputs, pc, edges, k, sorted_nodes, sorted_edges, sorted_claims,
                   context_string, result, context_results>>

\* lines 238-246
Emit(c) ==
    /\ \/ group[c].pc = "loop" /\ group[c].k = Len(group[c].edges)
       \/ group[c].pc = "break"
    /\ context_results' = [context_results EXCEPT ![c] =
          OutputRow(c, Rows(c), group[c].context_string, max_tokens)]
    /\ group' = [group EXCEPT ![c].pc = "done"]
    /\ UNCHANGED <<inputs, pc, edges, k, sorted_nodes, sorted_edges, sorted_claims,
                   context_string, result>>

Next ==
    \/ Prepare
    \/ Grow
    \/ Break
    \/ Return
    \/ \E c \in Communities : BeginGroup(c)
    \/ \E c \in Communities : BatchGrow(c)
    \/ \E c \in Communities : BatchBreak(c)
    \/ \E c \in Communities : Emit(c)

Spec == Init /\ [][Next]_vars

(***************************************************************************)
(* The growth steps as functions of the inputs                             *)
(***************************************************************************)
\* sort_context: the render the loop measures at step j
NodesUpTo(j) == Flatten([i \in 1..j |-> StepNodes(local_context, edges[i])])
ClaimsUpTo(j) == Flatten([i \in 1..j |-> StepClaims(local_context, edges[i])])
RenderUpTo(j) ==
    get_context_string(NodesUpTo(j), SubSeq(edges, 1, j), ClaimsUpTo(j),
                       sub_community_reports)

\* generate_context: the render the loop measures at step j of group c
BatchNodesUpTo(c, j) ==
    Flatten([i \in 1..j |-> BatchStepNodes(Rows(c), group[c].edges[i])])
BatchClaimsUpTo(c, j) ==
    Flatten([i \in 1..j |-> BatchStepClaims(Rows(c), group[c].edges[i])])
BatchRenderUpTo(c, j) ==
    Join(BatchSeed(sub_community_reports, c)
         \o BatchBlocks(BatchNodesUpTo(c, j), SubSeq(group[c].edges, 1, j),
                        BatchClaimsUpTo(c, j)))

\* the budget as a number, when one is set
Limit == max_tokens[1]
Exceeds(text) == num_tokens(text) > Limit

Started == pc \in {"loop", "break", "done"}
BatchStarted(c) == group[c].pc \in {"loop", "break", "done"}
Emitted(c) == context_results[c] # NoRow

\* the rows of the block with this header, << >> if the text has no such block
BlockRows(text, header) ==
    LET hits == {i \in DOMAIN text : text[i].header = header}
    IN  IF hits = {} THEN << >> ELSE text[CHOOSE i \in hits : TRUE].rows

\* an edge the render of sort_context keeps: a dict with a usable identity
WellFormed(e) == isdict(e) /\ HasIdentity(e, edge_id_column)

(***************************************************************************)
(* C1: with max_tokens provided, the string sort_context returns has at    *)
(* most max_tokens tokens.                                                 *)
(***************************************************************************)
C1_FitsBudget ==
    (pc = "done" /\ BudgetSet(max_tokens)) => num_tokens(result) <= Limit

C3_BatchBudget ==
    \A c \in Communities :
        (Emitted(c) /\ BudgetSet(max_tokens)) =>
            LET row == context_results[c]
                es == group[c].edges
            IN  /\ \/ row.context_size = 0
                   \/ \E j \in DOMAIN es :
                        row.context_size = num_tokens(BatchRenderUpTo(c, j))
                /\ row.context_size <= Limit
                /\ (es # << >> /\ Exceeds(BatchRenderUpTo(c, 1))) =>
                      /\ row.context_string = EmptyString
                      /\ row.context_size = 0
                      /\ row.context_exceed_flag = FALSE
                /\ ~(row.context_exceed_flag /\ row.context_string = EmptyString)

C3_Witness ==
    \E c \in Communities :
        /\ Emitted(c)
        /\ BudgetSet(max_tokens)
        /\ group[c].edges # << >>
        /\ Exceeds(BatchRenderUpTo(c, 1))
        /\ BatchSeed(sub_community_reports, c) # << >>
        /\ context_results[c].context_string = EmptyString
        /\ \E d \in Communities :
              /\ Emitted(d)
              /\ context_results[d].context_size > 0
              /\ context_results[d].context_size = Limit

(***************************************************************************)
(* C4: in the Relationships block of either assembler an edge of larger    *)
(* degree comes before an edge of smaller degree; among edges of equal     *)
(* degree sort_context keeps the order of the flattened input pool and     *)
(* sort_context_batch orders by ascending edge id; this is the order of    *)
(* the block after duplicate rows were removed.                            *)
(***************************************************************************)
\* position of the first occurrence of a row in a list
FirstIndex(s, r) == CHOOSE i \in DOMAIN s : s[i] = r /\ \A j \in 1..(i - 1) : s[j] # r

DegreeOrdered(rows) ==
    \A i, j \in DOMAIN rows :
        i < j => rows[i][edge_degree_column] >= rows[j][edge_degree_column]

PoolOrdered(rows, pool) ==
    \A i, j \in DOMAIN rows :
        (i < j /\ rows[i][edge_degree_column] = rows[j][edge_degree_column]) =>
            FirstIndex(pool, rows[i]) < FirstIndex(pool, rows[j])

IdOrdered(rows) ==
    \A i, j \in DOMAIN rows :
        (i < j /\ rows[i][edge_degree_column] = rows[j][edge_degree_column]) =>
            IdRank(rows[i][edge_id_column]) < IdRank(rows[j][edge_id_column])

C4_DegreeOrdering ==
    /\ pc = "done" =>
          LET rows == BlockRows(result, "-----Relationships-----")
          IN  /\ DegreeOrdered(rows)
              /\ PoolOrdered(rows, EdgePoolOf(local_context))
    /\ \A c \in Communities :
          Emitted(c) =>
              LET rows == BlockRows(context_results[c].context_string,
                                    "-----Relationships-----")
              IN  DegreeOrdered(rows) /\ IdOrdered(rows)

\* the sort moved an edge of larger degree in front of an earlier one, and a
\* duplicate of it was removed
C4_Witness ==
    /\ pc = "done"
    /\ LET rows == BlockRows(result, "-----Relationships-----")
           pool == EdgePoolOf(local_context)
       IN  /\ Len(rows) >= 2
           /\ rows[1][edge_degree_column] > rows[2][edge_degree_column]
           /\ FirstIndex(pool, rows[2]) < FirstIndex(pool, rows[1])

(***************************************************************************)
(* C5: in both assemblers a record whose identity is missing, empty after  *)
(* trimming or a placeholder appears in no rendered block.                 *)
(***************************************************************************)
IdentityColumn(header) ==
    IF header = "----Reports-----" THEN community_id_column ELSE "id"

OnlyIdentified(text) ==
    \A b \in DOMAIN text :
        \A i \in DOMAIN text[b].rows :
            /\ HasIdentity(text[b].rows[i], IdentityColumn(text[b].header))
            /\ text[b].rows[i][IdentityColumn(text[b].header)] # "nan"

C5_IdentityFiltering ==
    /\ pc = "done" => OnlyIdentified(result)
    /\ \A c \in Communities :
          Emitted(c) => OnlyIdentified(context_results[c].context_string)

(***************************************************************************)
(* C6: in every string either assembler returns, each distinct entity,     *)
(* edge and claim row occurs exactly once in its block, however often the  *)
(* growth loop appended it.                                                *)
(***************************************************************************)
Occurrences(s, r) == Cardinality({i \in DOMAIN s : s[i] = r})

\* every row of the list occurs exactly once among the rows of the block
ExactlyOnce(text, header, list) ==
    \A r \in Range(list) : Occurrences(BlockRows(text, header), r) = 1

NoRepeatedRow(text) ==
    \A b \in DOMAIN text :
        \A i, j \in DOMAIN text[b].rows :
            i # j => text[b].rows[i] # text[b].rows[j]

\* the number of growth steps whose lists the returned string renders
StepsReturned ==
    IF context_string # EmptyString /\ BudgetSet(max_tokens) /\ k > 0
       /\ Exceeds(RenderUpTo(k))
    THEN k - 1 ELSE k

BatchStepsReturned(c) ==
    IF BudgetSet(max_tokens) /\ group[c].k > 0 /\ Exceeds(BatchRenderUpTo(c, group[c].k))
    THEN group[c].k - 1 ELSE group[c].k

C6_Deduplication ==
    /\ pc = "done" =>
          /\ NoRepeatedRow(result)
          /\ ExactlyOnce(result, "-----Entities-----",
                FilterIdentity(NodesUpTo(StepsReturned), node_id_column))
          /\ ExactlyOnce(result, "-----Relationships-----",
                FilterIdentity(SubSeq(edges, 1, StepsReturned), edge_id_column))
          /\ ExactlyOnce(result, "-----Claims-----",
                FilterIdentity(ClaimsUpTo(StepsReturned), claim_id_column))
    /\ \A c \in Communities :
          (Emitted(c) /\ context_results[c].context_string # EmptyString) =>
              LET text == context_results[c].context_string
                  n == BatchStepsReturned(c)
              IN  /\ NoRepeatedRow(text)
                  /\ ExactlyOnce(text, "-----Entities-----", BatchNodesUpTo(c, n))
                  /\ ExactlyOnce(text, "-----Relationships-----",
                                 SubSeq(group[c].edges, 1, n))
                  /\ ExactlyOnce(text, "-----Claims-----", BatchClaimsUpTo(c, n))

\* node B is an endpoint of two returned edges and is listed once
C6_Witness ==
    /\ pc = "done"
    /\ Len(BlockRows(result, "-----Relationships-----")) >= 2
    /\ \E r \in Range(BlockRows(result, "-----Entities-----")) :
          /\ r[node_name_column] = "B"
          /\ Occurrences(sorted_nodes, r) >= 2
          /\ Occurrences(BlockRows(result, "-----Entities-----"), r) = 1
    /\ \E cl \in Range(BlockRows(result, "-----Claims-----")) :
          Occurrences(sorted_claims, cl) >= 2

(***************************************************************************)
(* C7 as stated: at each growth step of sort_context for an edge (s, t)    *)
(* only the claim list of s is appended, never that of t, so the claims    *)
(* accumulated are exactly the claims of the source nodes of the edges     *)
(* taken so far.                                                           *)
(***************************************************************************)
SourceClaims(j) ==
    UNION {Range(claim_details(local_context, edges[i][edge_source_column])) : i \in 1..j}

C7_OnlySourceClaims == Started => Range(sorted_claims) = SourceClaims(k)

(***************************************************************************)
(* C7 amended: at each growth step for an edge (s, t), if s has claims the *)
(* claim list of s and then the claim list of t are appended, and if s has *)
(* no claims nothing is appended, whatever claims t has.                   *)
(***************************************************************************)
SourceThenTarget(edge) ==
    LET s == claim_details(local_context, edge[edge_source_column])
        t == claim_details(local_context, edge[edge_target_column])
    IN  IF s = << >> THEN << >> ELSE s \o t

C7_SourceGatesTarget ==
    Started => sorted_claims = Flatten([i \in 1..k |-> SourceThenTarget(edges[i])])

\* a step whose source and target both have claims, which differ, and the
\* target's claims are in the list
C7_Witness ==
    /\ Started
    /\ \E i \in 1..k :
          /\ claim_details(local_context, edges[i][edge_source_column]) # << >>
          /\ claim_details(local_context, edges[i][edge_target_column]) # << >>
          /\ Range(claim_details(local_context, edges[i][edge_target_column]))
                \subseteq Range(sorted_claims)
          /\ claim_details(local_context, edges[i][edge_source_column])
                # claim_details(local_context, edges[i][edge_target_column])

(***************************************************************************)
(* C8: with a budget set, in both assemblers: edges are consumed in sorted *)
(* order; at the first step whose render exceeds max_tokens the loop stops *)
(* without recording that step's string, the accepted string being the     *)
(* render of the steps before it; no later edge is taken; if no step       *)
(* exceeds the budget the accepted string is the render of all edges; the  *)
(* loop makes at most |edges| steps.                                       *)
(***************************************************************************)
\* the accepted string after n steps none of which was over budget
AcceptedAt(n) == IF n = 0 THEN EmptyString ELSE RenderUpTo(n)
BatchAcceptedAt(c, n) == IF n = 0 THEN EmptyString ELSE BatchRenderUpTo(c, n)

GreedyPrefix ==
    (Started /\ BudgetSet(max_tokens)) =>
        /\ k <= Len(edges)
        /\ sorted_edges = SubSeq(edges, 1, k)
        /\ pc = "loop" =>
              /\ \A j \in 1..k : ~Exceeds(RenderUpTo(j))
              /\ context_string = AcceptedAt(k)
        /\ pc = "break" =>
              /\ k >= 1
              /\ Exceeds(RenderUpTo(k))
              /\ \A j \in 1..(k - 1) : ~Exceeds(RenderUpTo(j))
              /\ context_string = AcceptedAt(k - 1)
        /\ pc = "done" =>
              \/ context_string = AcceptedAt(k) /\ k = Len(edges)
              \/ context_string = AcceptedAt(k - 1) /\ k >= 1 /\ Exceeds(RenderUpTo(k))

BatchGreedyPrefix(c) ==
    (BatchStarted(c) /\ BudgetSet(max_tokens)) =>
        LET g == group[c]
        IN  /\ g.k <= Len(g.edges)
            /\ g.sorted_edges = SubSeq(g.edges, 1, g.k)
            /\ g.pc = "loop" =>
                  /\ \A j \in 1..g.k : ~Exceeds(BatchRenderUpTo(c, j))
                  /\ g.context_string = BatchAcceptedAt(c, g.k)
            /\ g.pc = "break" =>
                  /\ g.k >= 1
                  /\ Exceeds(BatchRenderUpTo(c, g.k))
                  /\ \A j \in 1..(g.k - 1) : ~Exceeds(BatchRenderUpTo(c, j))
                  /\ g.context_string = BatchAcceptedAt(c, g.k - 1)
            /\ g.pc = "done" =>
                  /\ context_results[c].context_string = g.context_string
                  /\ \/ g.context_string = BatchAcceptedAt(c, g.k) /\ g.k = Len(g.edges)
                     \/ /\ g.context_string = BatchAcceptedAt(c, g.k - 1)
                        /\ g.k >= 1
                        /\ Exceeds(BatchRenderUpTo(c, g.k))

C8_GreedyPrefix == GreedyPrefix /\ \A c \in Communities : BatchGreedyPrefix(c)

\* the loop stopped at its second step with an edge left over, the first step
\* being the accepted string
C8_Witness ==
    /\ pc = "break"
    /\ BudgetSet(max_tokens)
    /\ k = 2
    /\ Len(edges) > 2
    /\ context_string = RenderUpTo(1)
    /\ context_string # EmptyString

(***************************************************************************)
(* C9: the output row of a community is a function of that community's own *)
(* rows, of the reports with its community id and of max_tokens only; the  *)
(* report seed is not changed by a render, so no step's string holds the   *)
(* Reports block twice; the groups may be processed in any order or        *)
(* interleaving and give the same rows, one per community.                 *)
(***************************************************************************)
\* generate_context run alone on the rows of c: its sorted edges es, the render
\* of its step j, and the last step of the longest prefix of steps within budget
IsoRender(rows, seed, es, j) ==
    seed \o BatchBlocks(Flatten([i \in 1..j |-> BatchStepNodes(rows, es[i])]),
                        SubSeq(es, 1, j),
                        Flatten([i \in 1..j |-> BatchStepClaims(rows, es[i])]))

IsoFits(rows, seed, es, j) ==
    ~BudgetSet(max_tokens) \/ num_tokens(IsoRender(rows, seed, es, j)) <= Limit

IsoAccepted(rows, seed, es) ==
    LET stop == {j \in DOMAIN es : ~IsoFits(rows, seed, es, j)}
        n == IF stop = {} THEN Len(es)
             ELSE (CHOOSE j \in stop : \A i \in stop : j <= i) - 1
    IN  IF n = 0 THEN EmptyString ELSE IsoRender(rows, seed, es, n)

IsoRow(c) ==
    LET rows == GroupRows(local_contexts, c)
        text == IsoAccepted(rows, BatchSeed(sub_community_reports, c),
                            BatchSortedEdges(rows))
    IN  [community |-> c,
         context_string |-> text,
         context_size |-> num_tokens(text),
         context_exceed_flag |-> BudgetSet(max_tokens) /\ num_tokens(text) > Limit,
         all_context |-> [i \in DOMAIN rows |-> rows[i].all_context]]

ReportBlocks(text) == Cardinality({i \in DOMAIN text : text[i].header = "----Reports-----"})

C9_GroupIndependence ==
    \A c \in Communities :
        /\ Emitted(c) => context_results[c] = IsoRow(c)
        /\ Emitted(c) => c \in GroupKeys(local_contexts)
        /\ BatchStarted(c) =>
              /\ group[c].contexts = BatchSeed(sub_community_reports, c)
              /\ ReportBlocks(group[c].context_string) <= 1

\* one group has emitted a row with its Reports block while the other, which
\* has no report, is in the middle of its loop
C9_Witness ==
    \E c, d \in Communities :
        /\ c # d
        /\ Emitted(c)
        /\ ReportBlocks(context_results[c].context_string) = 1
        /\ Len(context_results[c].context_string) >= 2
        /\ group[c].k >= 1
        /\ group[d].pc = "loop"
        /\ group[d].k = 1
        /\ group[d].context_string # EmptyString
        /\ ReportBlocks(group[d].context_string) = 0

(***************************************************************************)
(* C10: context_exceed_flag is false in every row sort_context_batch       *)
(* emits, whether max_tokens is set, unset or 0.                           *)
(***************************************************************************)
C10_FlagNeverSet ==
    \A c \in Communities : Emitted(c) => context_results[c].context_exceed_flag = FALSE

\* a row emitted after the loop stopped over budget, holding a string that
\* fills the budget exactly
C10_Witness ==
    \E c \in Communities :
        /\ Emitted(c)
        /\ BudgetSet(max_tokens)
        /\ context_results[c].context_size = Limit
        /\ group[c].k >= 2
        /\ Exceeds(BatchRenderUpTo(c, group[c].k))

====
